---------------------------- MODULE Spec2Model ----------------------------
(***************************************************************************)
(* Model of the request-normalisation core of 1min-relay-worker:           *)
(*   - validateModelAndMessages        (utils/model-validation)            *)
(*   - the warm-up middleware and the global error boundary (index)        *)
(*   - mimeToExtension, processImageUrl, uploadImageToAsset (utils/image)  *)
(*                                                                         *)
(* JavaScript strings that the code inspects by prefix, split or regular   *)
(* expression (URLs, paths, header values, raw model names) are sequences  *)
(* of tokens; Join gives the string they spell.  The token alphabets are   *)
(* chosen so that the characters the code looks for (";" "," ":" "/v1")    *)
(* only occur as tokens of their own.                                      *)
(***************************************************************************)
EXTENDS Naturals, Sequences, FiniteSets, TLC

VARIABLES
    \* ---- validateModelAndMessages -------------------------------------
    rawModel,       \* argument rawModel (token sequence)
    messages,       \* argument messages (sequence of Message)
    vpc,            \* position of the call: "idle", "awaitCatalog", "done"
    calls,          \* collaborators invoked by the call so far, in order
    parseResult,    \* value of parseResult once parsed
    modelData,      \* <<snapshot>> once getModelData resolved, <<>> before
    msgPass,        \* <<result>> once processMessagesWithImageCheck ran, <<>> before
    outcome,        \* what the call returned or threw
    \* ---- app: warm-up middleware and onError --------------------------
    reqPath,        \* pathname of the request URL (token sequence)
    handler,        \* what the downstream chain does for this request
    rpc,            \* position of the request: "received", "atWarmup", "inHandler", "responded"
    warm,           \* warm-up task: "notStarted", "pending", "resolved", "swallowed", "unhandled"
    events,         \* order of the observable steps of the request
    responses,      \* the responses produced for the request
    logged,         \* console channel onError wrote to
    \* ---- image pipeline -----------------------------------------------
    imageUrl,       \* argument of processImageUrl (token sequence)
    ipc,            \* "idle", "fetching", "readingBody", "resolved", "uploading",
                    \* "readingUploadBody", "done", "failed"
    fetches,        \* the GETs issued by processImageUrl
    fetchResponse,  \* <<response>> once the GET was answered, <<>> before
    imageResult,    \* ImageData returned or error thrown by processImageUrl
    uploads,        \* the POSTs issued by uploadImageToAsset
    uploadResponse, \* <<response>> once the POST was answered, <<>> before
    uploadResult,   \* path returned or error thrown by uploadImageToAsset
    boundaryClass,  \* how the error boundary classifies a pipeline failure
    \* ---- mimeToExtension ----------------------------------------------
    mimeArg,        \* argument of mimeToExtension (token sequence)
    mpc,            \* "idle", "done"
    extResult       \* value mimeToExtension returned

validateVars == <<rawModel, messages, vpc, calls, parseResult, modelData,
                  msgPass, outcome>>
appVars      == <<reqPath, handler, rpc, warm, events, responses, logged>>
imageVars    == <<imageUrl, ipc, fetches, fetchResponse, imageResult, uploads,
                  uploadResponse, uploadResult, boundaryClass>>
mimeVars     == <<mimeArg, mpc, extResult>>
vars         == <<validateVars, appVars, imageVars, mimeVars>>

\* undefined / not yet assigned
NoValue == "undefined"

-----------------------------------------------------------------------------
(* Strings as token sequences *)

RECURSIVE Join(_)
Join(s) == IF s = <<>> THEN "" ELSE Head(s) \o Join(Tail(s))

\* String.prototype.startsWith
StartsWith(s, p) == Len(s) >= Len(p) /\ SubSeq(s, 1, Len(p)) = p

\* Sequences over alphabet A of length at most n
SeqUpTo(A, n) == UNION { [1..k -> A] : k \in 0..n }

\* index of the first occurrence of token t in s, Len(s)+1 when absent
RECURSIVE IndexFrom(_, _, _)
IndexFrom(s, t, i) ==
    IF i > Len(s) THEN Len(s) + 1
    ELSE IF s[i] = t THEN i ELSE IndexFrom(s, t, i + 1)

\* String.prototype.split(t): the pieces between occurrences of t
RECURSIVE Split(_, _)
Split(s, t) ==
    LET i == IndexFrom(s, t, 1)
    IN  IF i > Len(s) THEN <<s>>
        ELSE <<SubSeq(s, 1, i - 1)>> \o Split(SubSeq(s, i + 1, Len(s)), t)

-----------------------------------------------------------------------------
(* Inputs of validateModelAndMessages *)

\* how many messages a request carries at most
MaxMessages == 2

ModelIds == {"gpt-4o", "img-gen-1"}

\* raw model strings: a model id (possibly empty), optionally followed by the
\* web-search suffix
RawModels ==
    { <<>>, <<":online">> } \cup { <<m>> : m \in ModelIds }
                            \cup { <<m, ":online">> : m \in ModelIds }

TextPart     == [type |-> "text", text |-> "hi", url |-> NoValue]
ImagePart    == [type |-> "image_url", text |-> NoValue, url |-> "https://h/cat.png"]
ImageNoUrl   == [type |-> "image_url", text |-> NoValue, url |-> NoValue]

\* Message.content: a plain string, or an ordered sequence of content parts
StringContent(t) == [kind |-> "string", text |-> t, parts |-> <<>>]
PartsContent(ps) == [kind |-> "parts", text |-> NoValue, parts |-> ps]

Contents ==
    { StringContent("hello"), PartsContent(<<>>), PartsContent(<<TextPart>>),
      PartsContent(<<ImagePart>>), PartsContent(<<TextPart, ImagePart>>),
      PartsContent(<<ImageNoUrl>>) }

Messages == [role : {"user"}, content : Contents]

\* catalog snapshots the collaborator may resolve with
Catalogs ==
    [chatModelIds : SUBSET ModelIds, imageModelIds : SUBSET ModelIds,
     visionModelIds : SUBSET ModelIds]

-----------------------------------------------------------------------------
(* Collaborators of the validator whose code is outside the given sources *)

\* parseAndGetConfig(rawModel, env): purely syntactic; strips the web-search
\* suffix, reports an error string for a malformed (empty) model name
parseAndGetConfig(raw) ==
    LET online == Len(raw) > 0 /\ raw[Len(raw)] = ":online"
        base   == IF online THEN SubSeq(raw, 1, Len(raw) - 1) ELSE raw
    IN  IF base = <<>>
        THEN [error |-> "Model name is required", cleanModel |-> NoValue,
              webSearchConfig |-> NoValue]
        ELSE [error |-> NoValue, cleanModel |-> Join(base),
              webSearchConfig |-> IF online THEN "webSearch" ELSE NoValue]

\* processMessagesWithImageCheck(messages): one pass; strings pass through,
\* hasImages iff some part has type "image_url" and a present image_url.url
processMessagesWithImageCheck(msgs) ==
    [processedMessages |-> msgs,
     hasImages |->
        \E i \in 1..Len(msgs) :
            /\ msgs[i].content.kind = "parts"
            /\ \E j \in 1..Len(msgs[i].content.parts) :
                  /\ msgs[i].content.parts[j].type = "image_url"
                  /\ msgs[i].content.parts[j].url # NoValue]

-----------------------------------------------------------------------------
(* Thrown values: the class and the constructor arguments *)

ValidationError(message, field, code) ==
    [class |-> "ValidationError", args |-> <<message, field, code>>]

ModelNotFoundError(model) ==
    [class |-> "ModelNotFoundError", args |-> <<model>>]

\* what a rejected getModelData rejects with
CatalogFailure == [class |-> "ApiError", args |-> <<"Failed to fetch models">>]

\* no thrown value
NoError == [class |-> "none", args |-> <<>>]

Threw(err)    == [status |-> "threw", error |-> err, value |-> NoValue]
Returned(val) == [status |-> "returned", error |-> NoError, value |-> val]

-----------------------------------------------------------------------------
(* validateModelAndMessages *)

NotChatModel_Mutant(md, m) == m \notin md.chatModelIds /\ m \notin md.imageModelIds
\* line 39: !modelData.chatModelIds.includes(cleanModel)
NotChatModel(md, m) == m \notin md.chatModelIds

IsImageModel_Mutant(md, m) == m \in md.visionModelIds
\* line 40: modelData.imageModelIds.includes(cleanModel)
IsImageModel(md, m) == m \in md.imageModelIds

VisionRejected_Mutant(md, m, hasImages) == hasImages /\ m \notin md.chatModelIds
\* line 53: hasImages && !modelData.visionModelIds.includes(cleanModel)
VisionRejected(md, m, hasImages) == hasImages /\ m \notin md.visionModelIds

\* The synchronous rest of the call once getModelData resolved with md:
\* the calls it makes, the message pass (if made) and what it returns or throws
AfterCatalog_Mutant(pr, md, msgs) ==
    LET m    == pr.cleanModel
        pass == processMessagesWithImageCheck(msgs)
    IN  IF NotChatModel(md, m)
        THEN [made |-> <<"processMessagesWithImageCheck">>, pass |-> <<pass>>,
              out |->
                IF IsImageModel(md, m)
                THEN Threw(ValidationError(
                        "Model '" \o m \o "' is an image generation model. Use POST /v1/images/generations instead.",
                        "model", "model_not_supported"))
                ELSE Threw(ModelNotFoundError(m))]
        ELSE [made |-> <<"processMessagesWithImageCheck">>, pass |-> <<pass>>,
              out |->
                IF VisionRejected(md, m, pass.hasImages)
                THEN Threw(ValidationError(
                        "Model '" \o m \o "' does not support image inputs",
                        "model", "model_not_supported"))
                ELSE Returned([cleanModel |-> m,
                               webSearchConfig |-> pr.webSearchConfig,
                               processedMessages |-> pass.processedMessages])]
AfterCatalog(pr, md, msgs) ==
    LET m == pr.cleanModel
    IN  IF NotChatModel(md, m)
        THEN [made |-> <<>>, pass |-> <<>>,
              out |->
                IF IsImageModel(md, m)
                THEN Threw(ValidationError(
                        "Model '" \o m \o "' is an image generation model. Use POST /v1/images/generations instead.",
                        "model", "model_not_supported"))
                ELSE Threw(ModelNotFoundError(m))]
        ELSE LET pass == processMessagesWithImageCheck(msgs)
             IN  [made |-> <<"processMessagesWithImageCheck">>, pass |-> <<pass>>,
                  out |->
                    IF VisionRejected(md, m, pass.hasImages)
                    THEN Threw(ValidationError(
                            "Model '" \o m \o "' does not support image inputs",
                            "model", "model_not_supported"))
                    ELSE Returned([cleanModel |-> m,
                                   webSearchConfig |-> pr.webSearchConfig,
                                   processedMessages |-> pass.processedMessages])]

\* Mutant of ValidateCall: the catalog is fetched before the parse result is looked at
ValidateCall_Mutant ==
    /\ vpc = "idle"
    /\ LET pr == parseAndGetConfig(rawModel)
       IN  /\ parseResult' = pr
           /\ calls' = <<"parseAndGetConfig", "getModelData">>
           /\ IF pr.error # NoValue
              THEN /\ outcome' = Threw(ValidationError(pr.error, "model", "model_not_found"))
                   /\ vpc' = "done"
              ELSE /\ vpc' = "awaitCatalog"
                   /\ UNCHANGED outcome
    /\ UNCHANGED <<rawModel, messages, modelData, msgPass>>
    /\ UNCHANGED <<appVars, imageVars, mimeVars>>
\* lines 27-36: parse; a parse error throws at once, otherwise getModelData
\* is called and the call suspends on it
ValidateCall ==
    /\ vpc = "idle"
    /\ LET pr == parseAndGetConfig(rawModel)
       IN  /\ parseResult' = pr
           /\ IF pr.error # NoValue
              THEN /\ outcome' = Threw(ValidationError(pr.error, "model", "model_not_found"))
                   /\ calls' = <<"parseAndGetConfig">>
                   /\ vpc' = "done"
              ELSE /\ calls' = <<"parseAndGetConfig", "getModelData">>
                   /\ vpc' = "awaitCatalog"
                   /\ UNCHANGED outcome
    /\ UNCHANGED <<rawModel, messages, modelData, msgPass>>
    /\ UNCHANGED <<appVars, imageVars, mimeVars>>

\* lines 36-61: getModelData resolves with a snapshot and the call runs to its end
ValidateCatalogResolves ==
    /\ vpc = "awaitCatalog"
    /\ \E md \in Catalogs :
          LET r == AfterCatalog(parseResult, md, messages)
          IN  /\ modelData' = <<md>>
              /\ calls' = calls \o r.made
              /\ msgPass' = r.pass
              /\ outcome' = r.out
    /\ vpc' = "done"
    /\ UNCHANGED <<rawModel, messages, parseResult>>
    /\ UNCHANGED <<appVars, imageVars, mimeVars>>

\* line 36: getModelData rejects; the rejection leaves the call as it is
ValidateCatalogRejects ==
    /\ vpc = "awaitCatalog"
    /\ outcome' = Threw(CatalogFailure)
    /\ vpc' = "done"
    /\ UNCHANGED <<rawModel, messages, parseResult, calls, modelData, msgPass>>
    /\ UNCHANGED <<appVars, imageVars, mimeVars>>

-----------------------------------------------------------------------------
(* app: the warm-up middleware and the global error boundary *)

\* request pathnames
Paths ==
    { <<"/">>, <<"/v1">>, <<"/v1", "/messages">>,
      <<"/v1", "/messages", "/count_tokens">>, <<"/v1", "/messages", "-batch">>,
      <<"/v1", "/chat", "/completions">>, <<"/v1", "/images", "/generations">>,
      <<"/api", "/v1", "/messages">> }

\* lines 95-101
EXPECTED_ERRORS ==
    { "ValidationError", "AuthenticationError", "RateLimitError",
      "ModelNotFoundError", "ApiError" }

\* values a handler may throw: the typed taxonomy and values outside it
ThrownValues ==
    { ValidationError("Invalid model", "model", "model_not_found"),
      ModelNotFoundError("gpt-x"),
      [class |-> "AuthenticationError", args |-> <<"Invalid API key">>],
      [class |-> "RateLimitError", args |-> <<"Rate limit exceeded">>],
      [class |-> "ApiError", args |-> <<"Upstream failed">>],
      [class |-> "Error", args |-> <<"boom">>],
      [class |-> "TypeError", args |-> <<"x is not a function">>],
      [class |-> "string", args |-> <<"thrown string">>] }

\* what the downstream chain (next) does with the request: a route answers,
\* a route throws, or no route matches and app.notFound answers
Handlers ==
    { [does |-> "responds", error |-> NoError],
      [does |-> "notFound", error |-> NoError] }
        \cup { [does |-> "throws", error |-> e] : e \in ThrownValues }

\* lines 103-104: EXPECTED_ERRORS.some((cls) => err instanceof cls)
isExpectedError(err) == err.class \in EXPECTED_ERRORS

\* utils/errors: the wire type of a failure kind (generic for anything else)
ErrorWireType(err, generic) ==
    CASE err.class = "ValidationError"     -> "invalid_request_error"
      [] err.class = "ModelNotFoundError"  -> "invalid_request_error"
      [] err.class = "AuthenticationError" -> "authentication_error"
      [] err.class = "RateLimitError"      -> "rate_limit_error"
      [] err.class = "ApiError"            -> "api_error"
      [] OTHER                             -> generic

\* utils/errors: the HTTP status of a failure kind (server error for anything else)
ErrorStatus(err) ==
    CASE err.class = "ValidationError"     -> 400
      [] err.class = "ModelNotFoundError"  -> 404
      [] err.class = "AuthenticationError" -> 401
      [] err.class = "RateLimitError"      -> 429
      [] err.class = "ApiError"            -> 502
      [] OTHER                             -> 500

\* utils/errors: the message shown to the caller (generic for anything else)
ErrorMessage(err) ==
    IF err.class = "ModelNotFoundError"
    THEN "The model '" \o err.args[1] \o "' does not exist"
    ELSE IF err.class \in EXPECTED_ERRORS THEN err.args[1]
    ELSE "Internal server error"

\* toOpenAIError(err) -> { status, message, type, param?, code? }
toOpenAIError(err) ==
    [status  |-> ErrorStatus(err),
     message |-> ErrorMessage(err),
     type    |-> ErrorWireType(err, "server_error"),
     param   |-> IF err.class = "ValidationError" THEN err.args[2]
                 ELSE IF err.class = "ModelNotFoundError" THEN "model"
                 ELSE NoValue,
     code    |-> IF err.class = "ValidationError" THEN err.args[3]
                 ELSE IF err.class = "ModelNotFoundError" THEN "model_not_found"
                 ELSE NoValue]

\* toAnthropicError(err) -> { status, type, message }
toAnthropicError(err) ==
    [status  |-> ErrorStatus(err),
     type    |-> ErrorWireType(err, "api_error"),
     message |-> ErrorMessage(err)]

\* c.json(body, status)
JsonResponse(body, status) == [status |-> status, body |-> body]

\* line 116: path.startsWith("/v1/messages")
IsMessagesPath(path) == StartsWith(path, <<"/v1", "/messages">>)

\* lines 108-114: the console channel onError writes to
onErrorLog(err) == IF isExpectedError(err) THEN "info" ELSE "error"

onErrorResponse_Mutant(err, path) ==
    IF IsMessagesPath(path) /\ isExpectedError(err)
    THEN LET errorData == toAnthropicError(err)
         IN  JsonResponse([type |-> "error",
                           error |-> [type |-> errorData.type,
                                      message |-> errorData.message]],
                          errorData.status)
    ELSE LET errorData == toOpenAIError(err)
         IN  JsonResponse([error |-> [message |-> errorData.message,
                                      type |-> errorData.type,
                                      param |-> errorData.param,
                                      code |-> errorData.code]],
                          errorData.status)
\* lines 115-137: the response onError returns
onErrorResponse(err, path) ==
    IF IsMessagesPath(path)
    THEN LET errorData == toAnthropicError(err)
         IN  JsonResponse([type |-> "error",
                           error |-> [type |-> errorData.type,
                                      message |-> errorData.message]],
                          errorData.status)
    ELSE LET errorData == toOpenAIError(err)
         IN  JsonResponse([error |-> [message |-> errorData.message,
                                      type |-> errorData.type,
                                      param |-> errorData.param,
                                      code |-> errorData.code]],
                          errorData.status)

\* the response of a matched route that does not throw (routes/root, routes/api)
HandlerResponse == JsonResponse([ok |-> TRUE], 200)

\* lines 145-147: c.json({ error: "Not Found" }, 404)
NotFoundResponse == JsonResponse([error |-> "Not Found"], 404)

\* lines 86-87: errorHandler and corsMiddleware wrap every request; each hands
\* the request on to the next middleware
OuterMiddlewares ==
    /\ rpc = "received"
    /\ rpc' = "atWarmup"
    /\ events' = <<"errorHandler", "corsMiddleware">>
    /\ UNCHANGED <<reqPath, handler, warm, responses, logged>>
    /\ UNCHANGED <<validateVars, imageVars, mimeVars>>

\* Mutant of WarmupMiddleware: the middleware awaits getModelData itself, so the
\* request waits for the warm-up and a rejection reaches the error boundary
WarmupMiddleware_Mutant ==
    /\ rpc = "atWarmup"
    /\ \/ /\ warm' = "resolved"
          /\ rpc' = "inHandler"
          /\ events' = events \o <<"getModelData", "warmupResolved", "next">>
          /\ UNCHANGED <<responses, logged>>
       \/ /\ warm' = "unhandled"
          /\ rpc' = "responded"
          /\ events' = events \o <<"getModelData", "warmupRejected", "response">>
          /\ responses' = <<onErrorResponse(CatalogFailure, reqPath)>>
          /\ logged' = <<onErrorLog(CatalogFailure)>>
    /\ UNCHANGED <<reqPath, handler>>
    /\ UNCHANGED <<validateVars, imageVars, mimeVars>>
\* lines 90-93: getModelData is called and handed to waitUntil with its
\* rejection caught, then next() starts the downstream chain
WarmupMiddleware ==
    /\ rpc = "atWarmup"
    /\ warm' = "pending"
    /\ rpc' = "inHandler"
    /\ events' = events \o <<"getModelData", "waitUntil", "next">>
    /\ UNCHANGED <<reqPath, handler, responses, logged>>
    /\ UNCHANGED <<validateVars, imageVars, mimeVars>>

\* the downstream chain finishes: a route responds, or it throws and onError
\* (lines 107-138) turns the thrown value into the response, or no route
\* matches and app.notFound (lines 145-147) answers
HandlerCompletes ==
    /\ rpc = "inHandler"
    /\ IF handler.does = "throws"
       THEN /\ responses' = Append(responses, onErrorResponse(handler.error, reqPath))
            /\ logged' = Append(logged, onErrorLog(handler.error))
       ELSE IF handler.does = "notFound"
       THEN /\ responses' = Append(responses, NotFoundResponse)
            /\ UNCHANGED logged
       ELSE /\ responses' = Append(responses, HandlerResponse)
            /\ UNCHANGED logged
    /\ rpc' = "responded"
    /\ events' = Append(events, "response")
    /\ UNCHANGED <<reqPath, handler, warm>>
    /\ UNCHANGED <<validateVars, imageVars, mimeVars>>

\* line 91: the warm-up getModelData resolves
WarmupResolves ==
    /\ warm = "pending"
    /\ warm' = "resolved"
    /\ events' = Append(events, "warmupResolved")
    /\ UNCHANGED <<reqPath, handler, rpc, responses, logged>>
    /\ UNCHANGED <<validateVars, imageVars, mimeVars>>

\* line 91: the warm-up getModelData rejects and .catch(() => {}) handles it
WarmupRejects ==
    /\ warm = "pending"
    /\ warm' = "swallowed"
    /\ events' = Append(events, "warmupRejected")
    /\ UNCHANGED <<reqPath, handler, rpc, responses, logged>>
    /\ UNCHANGED <<validateVars, imageVars, mimeVars>>

-----------------------------------------------------------------------------
(* JavaScript values mimeToExtension can return: <<typeof, description>> *)

JsString(v)   == <<"string", v>>
JsUndefined   == <<"undefined", "">>

\* lines 50-55: the own properties of MIME_TO_EXT
MIME_TO_EXT_Keys == { "image/jpeg", "image/png", "image/webp", "image/gif" }

MIME_TO_EXT_Own(k) ==
    CASE k = "image/jpeg" -> ".jpg"
      [] k = "image/png"  -> ".png"
      [] k = "image/webp" -> ".webp"
      [] k = "image/gif"  -> ".gif"

\* MIME_TO_EXT is an object literal: a key that is no own property is looked
\* up on Object.prototype
ObjectPrototypeKeys ==
    { "constructor", "toString", "valueOf", "hasOwnProperty", "isPrototypeOf",
      "propertyIsEnumerable", "toLocaleString", "__proto__",
      "__defineGetter__", "__defineSetter__", "__lookupGetter__",
      "__lookupSetter__" }

\* line 60: MIME_TO_EXT[mimeType]
PropertyLookup(k) ==
    IF k \in MIME_TO_EXT_Keys THEN JsString(MIME_TO_EXT_Own(k))
    ELSE IF k = "__proto__" THEN <<"object", "Object.prototype">>
    ELSE IF k = "constructor" THEN <<"function", "Object">>
    ELSE IF k \in ObjectPrototypeKeys THEN <<"function", k>>
    ELSE JsUndefined

\* !ext: undefined and the empty string are falsy, functions and objects are not
Falsy(v) == v = JsUndefined \/ v = JsString("")

\* lines 59-65: the value returned and whether the warning was written
mimeToExtension(mimeType) ==
    LET ext == PropertyLookup(mimeType)
    IN  [value  |-> IF ext = JsUndefined THEN JsString(".png") ELSE ext,
         warned |-> Falsy(ext)]

\* line 57: new Set(Object.keys(MIME_TO_EXT))
SUPPORTED_MIME_TYPES == MIME_TO_EXT_Keys

\* how many tokens an argument of mimeToExtension has at most
MaxMimeTokens == 2

MimeTokens ==
    { "image/", "jpeg", "png", "webp", "gif", "text/plain", "constructor",
      "toString", "__proto__", "__defineGetter__", " " }

\* a call of mimeToExtension
MimeCall ==
    /\ mpc = "idle"
    /\ extResult' = mimeToExtension(Join(mimeArg))
    /\ mpc' = "done"
    /\ UNCHANGED mimeArg
    /\ UNCHANGED <<validateVars, appVars, imageVars>>

-----------------------------------------------------------------------------
(* Image pipeline: processImageUrl and uploadImageToAsset *)

\* how many tokens the payload of a data URI has at most
MaxPayload == 3

\* payload tokens: "QUJD" and "QQ" are base64 text, "=" is padding, "!" is
\* no base64 character
PayloadTokens == { "QUJD", "QQ", "=", "!" }

Payloads == SeqUpTo(PayloadTokens, MaxPayload)

\* data URIs: data:image/<subtype><parameters>[,<payload>[,<more>]]
DataUrls ==
    LET heads  == { <<"data:", "image/">> \o sub \o par :
                      sub \in { <<>>, <<"png">>, <<"webp">>, <<"svg+xml">> },
                      par \in { <<>>, <<";", "base64">>,
                                <<";", "charset=utf-8", ";", "base64">> } }
        tails  == { <<>> } \cup { <<",">> \o p : p \in Payloads }
                           \cup { <<",">> \o p \o <<",", "QQ">> :
                                     p \in { <<>>, <<"QUJD">> } }
    IN  { h \o t : h \in heads, t \in tails }

\* every other URL is fetched, whatever its scheme
HttpUrls ==
    { <<"https://", "h/cat.png">>, <<"http://", "h/img">>,
      <<"https://", "h/", "data:", "image/", "png">>,
      <<"data:", "text/plain", ";", "base64", ",", "QQ">> }

\* a response header: absent, or present with a value
NoHeader  == [present |-> FALSE, value |-> <<>>]
Header(v) == [present |-> TRUE, value |-> v]

\* content-type header values of the image response
ContentTypeValues ==
    { <<>>, <<"image/", "webp">>, <<"image/", "jpeg">>, <<"image/", "gif">>,
      <<"image/", "png", ";", "charset=utf-8">>,
      <<" ", "image/", "webp", " ", ";", " ", "q=1">>,
      <<"IMAGE/", "PNG">>, <<"application/octet-stream">>, <<"text/html">>,
      <<"constructor">>, <<";", "image/", "png">>, <<"image/", " ", "png">> }

ContentTypes == { NoHeader } \cup { Header(v) : v \in ContentTypeValues }

FetchResponses ==
    [ok : {TRUE}, status : {"200"}, statusText : {"OK"},
     contentType : ContentTypes]
    \cup [ok : {FALSE}, status : {"404"}, statusText : {"Not Found"},
          contentType : {NoHeader, Header(<<"text/html">>)}]
    \cup [ok : {FALSE}, status : {"500"}, statusText : {"Internal Server Error"},
          contentType : {Header(<<"image/", "png">>)}]

\* responses of the asset API
UploadResponses ==
    { [ok |-> TRUE,  status |-> "200", statusText |-> "OK"],
      [ok |-> FALSE, status |-> "401", statusText |-> "Unauthorized"],
      [ok |-> FALSE, status |-> "500", statusText |-> "Internal Server Error"] }

\* what response.text() of a failed upload may resolve with
UploadErrorTexts == { "", "bad key" }

\* bodies of a 2xx upload response, as response.json() sees them: text that
\* is no JSON, the JSON null, or an object with or without fileContent.path
UploadBodies ==
    { [json |-> "invalid", hasFileContent |-> FALSE, path |-> ""],
      [json |-> "null",    hasFileContent |-> FALSE, path |-> ""],
      [json |-> "object",  hasFileContent |-> FALSE, path |-> ""],
      [json |-> "object",  hasFileContent |-> TRUE,  path |-> ""],
      [json |-> "object",  hasFileContent |-> TRUE,  path |-> "images/asset.png"] }

\* new Error(message)
PlainError(message) == [class |-> "Error", args |-> <<message>>]

\* what atob throws for text that is no base64
InvalidCharacterError ==
    [class |-> "DOMException", args |-> <<"InvalidCharacterError">>]

\* the characters of a token, by class: "b" base64 alphabet, "=" padding,
\* "x" any other character
TokenChars(t) ==
    CASE t = "QUJD"    -> <<"b", "b", "b", "b">>
      [] t = "QQ"      -> <<"b", "b">>
      [] t = "="       -> <<"=">>
      [] t = "png"     -> <<"b", "b", "b">>
      [] t = "webp"    -> <<"b", "b", "b", "b">>
      [] t = "base64"  -> <<"b", "b", "b", "b", "b", "b">>
      [] t = "image/"  -> <<"b", "b", "b", "b", "b", "b">>
      [] t = "svg+xml" -> <<"b", "b", "b", "b", "b", "b", "b">>
      [] OTHER         -> <<"x">>

RECURSIVE Chars(_)
Chars(s) == IF s = <<>> THEN <<>> ELSE TokenChars(Head(s)) \o Chars(Tail(s))

\* atob(data): the number of bytes decoded, or -1 when atob throws.
\* A length divisible by 4 loses one or two trailing "="; a remaining length
\* of 4k+1 or any character outside the base64 alphabet is an error.
atob(data) ==
    LET c  == Chars(data)
        n  == Len(c)
        k  == IF n % 4 = 0 /\ n >= 1 /\ c[n] = "="
              THEN (IF n >= 2 /\ c[n - 1] = "=" THEN n - 2 ELSE n - 1)
              ELSE n
        d  == SubSeq(c, 1, k)
        ok == k % 4 # 1 /\ \A i \in 1..k : d[i] = "b"
    IN  IF ok THEN (k * 6) \div 8 ELSE 0 - 1

\* line 73: /^data:([^;,]+)/.exec(imageUrl)?.[1] ?? "image/png"
DataUriMime(url) ==
    LET stop == IF IndexFrom(url, ";", 1) < IndexFrom(url, ",", 1)
                THEN IndexFrom(url, ";", 1) ELSE IndexFrom(url, ",", 1)
        run  == SubSeq(url, 2, stop - 1)
    IN  IF Len(url) >= 1 /\ url[1] = "data:" /\ run # <<>>
        THEN Join(run) ELSE "image/png"

\* line 74: imageUrl.split(",")[1]; undefined (no comma) is falsy like the
\* empty string, so both are the empty payload here
Base64Data(url) ==
    LET pieces == Split(url, ",")
    IN  IF Len(pieces) >= 2 THEN pieces[2] ELSE <<>>

\* String.prototype.trim on a token sequence: " " is the whitespace token
RECURSIVE TrimLeft(_)
TrimLeft(s) == IF s # <<>> /\ Head(s) = " " THEN TrimLeft(Tail(s)) ELSE s

RECURSIVE TrimRight(_)
TrimRight(s) ==
    IF s # <<>> /\ s[Len(s)] = " " THEN TrimRight(SubSeq(s, 1, Len(s) - 1)) ELSE s

Trim(s) == TrimRight(TrimLeft(s))

\* line 98: response.headers.get("content-type")?.split(";")[0]?.trim()
RawMime(contentType) ==
    IF ~contentType.present THEN NoValue
    ELSE Join(Trim(Split(contentType.value, ";")[1]))

ResponseMime_Mutant(contentType) ==
    LET rawMime == RawMime(contentType)
    IN  IF rawMime # NoValue /\ rawMime # "" THEN rawMime ELSE "image/png"
\* lines 99-100: rawMime && SUPPORTED_MIME_TYPES.has(rawMime) ? rawMime : "image/png"
ResponseMime(contentType) ==
    LET rawMime == RawMime(contentType)
    IN  IF rawMime # NoValue /\ rawMime # "" /\ rawMime \in SUPPORTED_MIME_TYPES
        THEN rawMime ELSE "image/png"

ImageData(bytes, mimeType) == [data |-> bytes, mimeType |-> mimeType]

\* line 71
IsDataImageUrl(url) == StartsWith(url, <<"data:", "image/">>)

DecodeDataUri_Mutant(url) ==
    LET mimeType   == IF DataUriMime(url) \in SUPPORTED_MIME_TYPES
                      THEN DataUriMime(url) ELSE "image/png"
        base64Data == Base64Data(url)
    IN  IF base64Data = <<>>
        THEN Threw(PlainError("Invalid base64 image format"))
        ELSE IF atob(base64Data) < 0 THEN Threw(InvalidCharacterError)
        ELSE Returned(ImageData(atob(base64Data), mimeType))
\* lines 72-84: the data: branch of processImageUrl
DecodeDataUri(url) ==
    LET mimeType   == DataUriMime(url)
        base64Data == Base64Data(url)
    IN  IF base64Data = <<>>
        THEN Threw(PlainError("Invalid base64 image format"))
        ELSE IF atob(base64Data) < 0 THEN Threw(InvalidCharacterError)
        ELSE Returned(ImageData(atob(base64Data), mimeType))

\* lines 93-97: a non-2xx image response
FetchFailure(response) ==
    Threw(PlainError("Failed to fetch image: " \o response.status \o " "
                       \o response.statusText))

\* a body stream that fails while it is read
BodyReadError == [class |-> "TypeError", args |-> <<"terminated">>]

\* lines 70-92: processImageUrl is called: a data:image/ URI is decoded on the
\* spot, any other URL is fetched and the call suspends on the GET
ProcessImageUrlCall ==
    /\ ipc = "idle"
    /\ IF IsDataImageUrl(imageUrl)
       THEN /\ imageResult' = DecodeDataUri(imageUrl)
            /\ ipc' = "resolved"
            /\ UNCHANGED fetches
       ELSE /\ fetches' = Append(fetches, Join(imageUrl))
            /\ ipc' = "fetching"
            /\ UNCHANGED imageResult
    /\ UNCHANGED <<imageUrl, fetchResponse, uploads, uploadResponse, uploadResult,
                   boundaryClass>>
    /\ UNCHANGED <<validateVars, appVars, mimeVars>>

\* lines 87-101: the GET is answered: a non-2xx response throws, otherwise
\* the call suspends again on response.arrayBuffer()
ImageFetchResponds ==
    /\ ipc = "fetching"
    /\ \E response \in FetchResponses :
          /\ fetchResponse' = <<response>>
          /\ IF ~response.ok
             THEN /\ imageResult' = FetchFailure(response)
                  /\ ipc' = "resolved"
             ELSE /\ ipc' = "readingBody"
                  /\ UNCHANGED imageResult
    /\ UNCHANGED <<imageUrl, fetches, uploads, uploadResponse, uploadResult,
                   boundaryClass>>
    /\ UNCHANGED <<validateVars, appVars, mimeVars>>

\* line 87: the GET itself fails (no response); fetch rejects with a TypeError
ImageFetchRejects ==
    /\ ipc = "fetching"
    /\ imageResult' = Threw([class |-> "TypeError", args |-> <<"fetch failed">>])
    /\ ipc' = "resolved"
    /\ UNCHANGED <<imageUrl, fetches, fetchResponse, uploads, uploadResponse,
                   uploadResult, boundaryClass>>
    /\ UNCHANGED <<validateVars, appVars, mimeVars>>

\* lines 98-101: response.arrayBuffer() resolves; the ImageData carries the
\* body and the type derived from the response's content-type
ImageBodyRead ==
    /\ ipc = "readingBody"
    /\ \E bodyBytes \in {0, 3} :
          imageResult' = Returned(ImageData(bodyBytes,
                                    ResponseMime(fetchResponse[1].contentType)))
    /\ ipc' = "resolved"
    /\ UNCHANGED <<imageUrl, fetches, fetchResponse, uploads, uploadResponse,
                   uploadResult, boundaryClass>>
    /\ UNCHANGED <<validateVars, appVars, mimeVars>>

\* line 101: response.arrayBuffer() rejects
ImageBodyFails ==
    /\ ipc = "readingBody"
    /\ imageResult' = Threw(BodyReadError)
    /\ ipc' = "resolved"
    /\ UNCHANGED <<imageUrl, fetches, fetchResponse, uploads, uploadResponse,
                   uploadResult, boundaryClass>>
    /\ UNCHANGED <<validateVars, appVars, mimeVars>>

\* lines 117-130: uploadImageToAsset is called with the ImageData obtained:
\* the file name's extension comes from mimeToExtension, one POST is issued
UploadCall ==
    /\ ipc = "resolved"
    /\ imageResult.status = "returned"
    /\ LET ext == mimeToExtension(imageResult.value.mimeType).value
       IN  uploads' = Append(uploads, [ext |-> ext,
                                       type |-> imageResult.value.mimeType,
                                       bytes |-> imageResult.value.data])
    /\ ipc' = "uploading"
    /\ UNCHANGED <<imageUrl, fetches, fetchResponse, imageResult, uploadResponse,
                   uploadResult, boundaryClass>>
    /\ UNCHANGED <<validateVars, appVars, mimeVars>>

\* lines 132-137: a non-2xx upload response whose text() resolved with errorText
UploadFailure(response, errorText) ==
    Threw(PlainError("Failed to upload image: " \o response.status \o " "
                       \o response.statusText \o " - " \o errorText))

\* lines 139-145: the rest of uploadImageToAsset for a 2xx response with this
\* body: json() rejects on text that is no JSON, result.fileContent throws on
\* null, a missing or empty path is "no path returned"
AfterJson(body) ==
    IF body.json = "invalid"
    THEN Threw([class |-> "SyntaxError", args |-> <<"Unexpected token">>])
    ELSE IF body.json = "null"
    THEN Threw([class |-> "TypeError",
                args |-> <<"Cannot read properties of null">>])
    ELSE IF ~body.hasFileContent \/ body.path = ""
    THEN Threw(PlainError("No image path returned from asset API"))
    ELSE Returned(body.path)

\* lines 124-139: the POST is answered; the call suspends again on
\* response.text() (non-2xx) or response.json() (2xx)
UploadResponds ==
    /\ ipc = "uploading"
    /\ \E response \in UploadResponses : uploadResponse' = <<response>>
    /\ ipc' = "readingUploadBody"
    /\ UNCHANGED <<imageUrl, fetches, fetchResponse, imageResult, uploads,
                   uploadResult, boundaryClass>>
    /\ UNCHANGED <<validateVars, appVars, mimeVars>>

\* line 124: the POST itself fails (no response); fetch rejects with a TypeError
UploadRejects ==
    /\ ipc = "uploading"
    /\ uploadResult' = Threw([class |-> "TypeError", args |-> <<"fetch failed">>])
    /\ ipc' = "done"
    /\ UNCHANGED <<imageUrl, fetches, fetchResponse, imageResult, uploads,
                   uploadResponse, boundaryClass>>
    /\ UNCHANGED <<validateVars, appVars, mimeVars>>

\* lines 133-145: the body of the upload response is read
UploadBodyRead ==
    /\ ipc = "readingUploadBody"
    /\ IF ~uploadResponse[1].ok
       THEN \E errorText \in UploadErrorTexts :
               uploadResult' = UploadFailure(uploadResponse[1], errorText)
       ELSE \E body \in UploadBodies : uploadResult' = AfterJson(body)
    /\ ipc' = "done"
    /\ UNCHANGED <<imageUrl, fetches, fetchResponse, imageResult, uploads,
                   uploadResponse, boundaryClass>>
    /\ UNCHANGED <<validateVars, appVars, mimeVars>>

\* lines 133, 139: response.text() or response.json() rejects because the body
\* stream fails
UploadBodyFails ==
    /\ ipc = "readingUploadBody"
    /\ uploadResult' = Threw(BodyReadError)
    /\ ipc' = "done"
    /\ UNCHANGED <<imageUrl, fetches, fetchResponse, imageResult, uploads,
                   uploadResponse, boundaryClass>>
    /\ UNCHANGED <<validateVars, appVars, mimeVars>>

\* the failure of either operation, if any
PipelineFailure ==
    IF ipc = "resolved" /\ imageResult.status = "threw" THEN imageResult.error
    ELSE IF ipc = "done" /\ uploadResult.status = "threw" THEN uploadResult.error
    ELSE NoError

\* lines 107-114: a failure of the pipeline, thrown on, reaches onError, which
\* reports it as a request error (console.info) or as unhandled (console.error)
FailureReachesBoundary ==
    /\ PipelineFailure # NoError
    /\ boundaryClass' = onErrorLog(PipelineFailure)
    /\ ipc' = "failed"
    /\ UNCHANGED <<imageUrl, fetches, fetchResponse, imageResult, uploads,
                   uploadResponse, uploadResult>>
    /\ UNCHANGED <<validateVars, appVars, mimeVars>>

-----------------------------------------------------------------------------
(* Specifications: one per component, the others at rest *)

ValidateNext ==
    \/ ValidateCall
    \/ ValidateCatalogResolves
    \/ ValidateCatalogRejects

\* a call of validateModelAndMessages with any arguments; the rest is at rest
InitValidate ==
    /\ rawModel \in RawModels
    /\ messages \in SeqUpTo(Messages, MaxMessages)
    /\ vpc = "idle"
    /\ calls = <<>>
    /\ parseResult = NoValue
    /\ modelData = <<>>
    /\ msgPass = <<>>
    /\ outcome = NoValue
    /\ reqPath = <<>>
    /\ handler = [does |-> "nothing", error |-> NoError]
    /\ rpc = "off"
    /\ warm = "notStarted"
    /\ events = <<>>
    /\ responses = <<>>
    /\ logged = <<>>
    /\ imageUrl = <<>>
    /\ ipc = "off"
    /\ fetches = <<>>
    /\ fetchResponse = <<>>
    /\ imageResult = NoValue
    /\ uploads = <<>>
    /\ uploadResponse = <<>>
    /\ uploadResult = NoValue
    /\ boundaryClass = NoValue
    /\ mimeArg = <<>>
    /\ mpc = "off"
    /\ extResult = NoValue

\* validateModelAndMessages, called once with any arguments
SpecValidate == InitValidate /\ [][ValidateNext]_vars

AppNext ==
    \/ OuterMiddlewares
    \/ WarmupMiddleware
    \/ HandlerCompletes
    \/ WarmupResolves
    \/ WarmupRejects

\* a request received, with any path and handler; the rest is at rest
InitApp ==
    /\ rawModel = <<>>
    /\ messages = <<>>
    /\ vpc = "off"
    /\ calls = <<>>
    /\ parseResult = NoValue
    /\ modelData = <<>>
    /\ msgPass = <<>>
    /\ outcome = NoValue
    /\ reqPath \in Paths
    /\ handler \in Handlers
    /\ rpc = "received"
    /\ warm = "notStarted"
    /\ events = <<>>
    /\ responses = <<>>
    /\ logged = <<>>
    /\ imageUrl = <<>>
    /\ ipc = "off"
    /\ fetches = <<>>
    /\ fetchResponse = <<>>
    /\ imageResult = NoValue
    /\ uploads = <<>>
    /\ uploadResponse = <<>>
    /\ uploadResult = NoValue
    /\ boundaryClass = NoValue
    /\ mimeArg = <<>>
    /\ mpc = "off"
    /\ extResult = NoValue

\* one request through the warm-up middleware, the handler and onError
SpecApp == InitApp /\ [][AppNext]_vars

ImageNext ==
    \/ ProcessImageUrlCall
    \/ ImageFetchResponds
    \/ ImageFetchRejects
    \/ ImageBodyRead
    \/ ImageBodyFails
    \/ UploadCall
    \/ UploadResponds
    \/ UploadRejects
    \/ UploadBodyRead
    \/ UploadBodyFails
    \/ FailureReachesBoundary

\* a call of processImageUrl with any URL; the rest is at rest
InitImage ==
    /\ rawModel = <<>>
    /\ messages = <<>>
    /\ vpc = "off"
    /\ calls = <<>>
    /\ parseResult = NoValue
    /\ modelData = <<>>
    /\ msgPass = <<>>
    /\ outcome = NoValue
    /\ reqPath = <<>>
    /\ handler = [does |-> "nothing", error |-> NoError]
    /\ rpc = "off"
    /\ warm = "notStarted"
    /\ events = <<>>
    /\ responses = <<>>
    /\ logged = <<>>
    /\ imageUrl \in DataUrls \cup HttpUrls
    /\ ipc = "idle"
    /\ fetches = <<>>
    /\ fetchResponse = <<>>
    /\ imageResult = NoValue
    /\ uploads = <<>>
    /\ uploadResponse = <<>>
    /\ uploadResult = NoValue
    /\ boundaryClass = NoValue
    /\ mimeArg = <<>>
    /\ mpc = "off"
    /\ extResult = NoValue

\* one image through processImageUrl and uploadImageToAsset
SpecImage == InitImage /\ [][ImageNext]_vars

MimeNextStep ==
    \/ MimeCall

\* a call of mimeToExtension with any argument; the rest is at rest
InitMime ==
    /\ rawModel = <<>>
    /\ messages = <<>>
    /\ vpc = "off"
    /\ calls = <<>>
    /\ parseResult = NoValue
    /\ modelData = <<>>
    /\ msgPass = <<>>
    /\ outcome = NoValue
    /\ reqPath = <<>>
    /\ handler = [does |-> "nothing", error |-> NoError]
    /\ rpc = "off"
    /\ warm = "notStarted"
    /\ events = <<>>
    /\ responses = <<>>
    /\ logged = <<>>
    /\ imageUrl = <<>>
    /\ ipc = "off"
    /\ fetches = <<>>
    /\ fetchResponse = <<>>
    /\ imageResult = NoValue
    /\ uploads = <<>>
    /\ uploadResponse = <<>>
    /\ uploadResult = NoValue
    /\ boundaryClass = NoValue
    /\ mimeArg \in SeqUpTo(MimeTokens, MaxMimeTokens)
    /\ mpc = "idle"
    /\ extResult = NoValue

\* mimeToExtension, called once with any argument
SpecMime == InitMime /\ [][MimeNextStep]_vars

-----------------------------------------------------------------------------
(* Properties of validateModelAndMessages (SpecValidate) *)

Range(q) == { q[i] : i \in 1..Len(q) }

Count(q, x) == Cardinality({ i \in 1..Len(q) : q[i] = x })

ValidateDone  == vpc = "done"
ParseFailed   == vpc \in {"awaitCatalog", "done"} /\ parseResult.error # NoValue
\* the call got a snapshot and ran to its end with it
WithSnapshot  == vpc = "done" /\ Len(modelData) = 1
Succeeded     == vpc = "done" /\ outcome.status = "returned"
ThrewValidation(code) ==
    /\ vpc = "done"
    /\ outcome.status = "threw"
    /\ outcome.error.class = "ValidationError"
    /\ outcome.error.args[2] = "model"
    /\ outcome.error.args[3] = code

\* C1: whenever validateModelAndMessages returns successfully, the returned
\* cleanModel is a member of chatModelIds of the one snapshot this call
\* fetched; it never succeeds for an unknown or image-only model id.
C1_SuccessOnlyForChatModel ==
    Succeeded =>
        /\ Len(modelData) = 1
        /\ Count(calls, "getModelData") = 1
        /\ outcome.value.cleanModel \in modelData[1].chatModelIds

\* a success for a model id the snapshot also lists as an image model
C1_Witness ==
    /\ Succeeded
    /\ outcome.value.cleanModel = "img-gen-1"
    /\ "img-gen-1" \in modelData[1].imageModelIds

\* C2: when model-string parsing reports an error the call fails with
\* ValidationError(field "model", code "model_not_found") and neither the
\* catalog lookup nor the message pass was invoked in that execution.
C2_ParseErrorBeforeCatalog ==
    ParseFailed =>
        /\ ThrewValidation("model_not_found")
        /\ outcome.error.args[1] = parseResult.error
        /\ "getModelData" \notin Range(calls)
        /\ "processMessagesWithImageCheck" \notin Range(calls)
        /\ modelData = <<>>
        /\ msgPass = <<>>

\* a raw model that is only the web-search suffix, rejected
C2_Witness ==
    /\ ParseFailed
    /\ rawModel = <<":online">>
    /\ ValidateDone
    /\ messages # <<>>

\* C3: with a parsed model id that is not in chatModelIds the call fails with
\* ValidationError model_not_supported naming the image-generation endpoint
\* exactly when the id is in imageModelIds, and with
\* ModelNotFoundError(cleanModel) otherwise; it never succeeds.
C3_NonChatModelRejected ==
    (WithSnapshot /\ parseResult.cleanModel \notin modelData[1].chatModelIds) =>
        /\ outcome.status = "threw"
        /\ outcome.error.class \in {"ValidationError", "ModelNotFoundError"}
        /\ (parseResult.cleanModel \in modelData[1].imageModelIds)
              <=> ThrewValidation("model_not_supported")
        /\ (parseResult.cleanModel \in modelData[1].imageModelIds)
              => outcome.error.args[1] =
                    "Model '" \o parseResult.cleanModel \o
                    "' is an image generation model. Use POST /v1/images/generations instead."
        /\ (parseResult.cleanModel \notin modelData[1].imageModelIds)
              => outcome.error = ModelNotFoundError(parseResult.cleanModel)

\* "img-gen-1" in imageModelIds but not in chatModelIds, rejected
C3_Witness ==
    /\ WithSnapshot
    /\ parseResult.cleanModel = "img-gen-1"
    /\ modelData[1].imageModelIds = {"img-gen-1"}
    /\ modelData[1].chatModelIds = {"gpt-4o"}
    /\ ThrewValidation("model_not_supported")

\* C4: for a model id in chatModelIds, images with a model outside
\* visionModelIds fail with ValidationError model_not_supported ("does not
\* support image inputs"); with the model in visionModelIds, or without
\* images, the call returns cleanModel, webSearchConfig and processedMessages.
C4_VisionGate ==
    (WithSnapshot /\ parseResult.cleanModel \in modelData[1].chatModelIds) =>
        /\ Len(msgPass) = 1
        /\ (msgPass[1].hasImages
              /\ parseResult.cleanModel \notin modelData[1].visionModelIds)
              => /\ ThrewValidation("model_not_supported")
                 /\ outcome.error.args[1] =
                       "Model '" \o parseResult.cleanModel \o
                       "' does not support image inputs"
        /\ (~msgPass[1].hasImages
              \/ parseResult.cleanModel \in modelData[1].visionModelIds)
              => /\ Succeeded
                 /\ outcome.value.cleanModel = parseResult.cleanModel
                 /\ outcome.value.webSearchConfig = parseResult.webSearchConfig
                 /\ outcome.value.processedMessages = msgPass[1].processedMessages

\* a vision model accepting a message with an image_url part
C4_Witness ==
    /\ Succeeded
    /\ msgPass[1].hasImages
    /\ outcome.value.cleanModel \in modelData[1].visionModelIds
    /\ outcome.value.webSearchConfig # NoValue

\* the calls made are a prefix of parse, catalog fetch, message pass
CallOrder ==
    \E k \in 1..3 :
        calls = SubSeq(<<"parseAndGetConfig", "getModelData",
                         "processMessagesWithImageCheck">>, 1, k)

\* the message pass runs only after the model was found in chatModelIds
PassOnlyForChatModel ==
    /\ ("processMessagesWithImageCheck" \in Range(calls)) <=> (msgPass # <<>>)
    /\ msgPass # <<>> =>
          /\ Len(modelData) = 1
          /\ parseResult.cleanModel \in modelData[1].chatModelIds
    /\ (Len(modelData) = 1
          /\ parseResult.cleanModel \notin modelData[1].chatModelIds) =>
          /\ msgPass = <<>>
          /\ outcome.status = "threw"
          /\ outcome.error.class \in {"ValidationError", "ModelNotFoundError"}

\* C10 as stated: the steps run in the order parse, catalog fetch, membership
\* check, message pass, vision check; the message pass runs only for a model
\* found in chatModelIds; and every validation call fetches the catalog
\* exactly once.
C10_Original ==
    ValidateDone =>
        /\ CallOrder
        /\ PassOnlyForChatModel
        /\ Count(calls, "getModelData") = 1

\* C10 (amended): the same order and the same guard on the message pass; the
\* catalog is fetched exactly once by every call whose model string parses
\* and not at all by a call whose model string does not parse.
C10_StepOrder ==
    ValidateDone =>
        /\ CallOrder
        /\ PassOnlyForChatModel
        /\ Count(calls, "getModelData") =
              (IF parseResult.error = NoValue THEN 1 ELSE 0)

\* an image-generation model with an image in its messages: rejected at the
\* membership check, no message pass
C10_Witness ==
    /\ WithSnapshot
    /\ parseResult.cleanModel \in modelData[1].imageModelIds
    /\ parseResult.cleanModel \notin modelData[1].chatModelIds
    /\ processMessagesWithImageCheck(messages).hasImages
    /\ calls = <<"parseAndGetConfig", "getModelData">>

-----------------------------------------------------------------------------
(* Properties of the warm-up middleware and the error boundary (SpecApp) *)

\* position of event e in the request's events, 0 when it did not happen
Position(e) ==
    IF e \in Range(events) THEN CHOOSE i \in 1..Len(events) : events[i] = e ELSE 0

\* the response the request gets from its handler alone
HandlerAloneResponse ==
    IF handler.does = "throws"
    THEN onErrorResponse(handler.error, reqPath)
    ELSE IF handler.does = "notFound"
    THEN JsonResponse([error |-> "Not Found"], 404)
    ELSE HandlerResponse

\* C5: the warm-up is started before next runs, the handler completes
\* without waiting for the warm-up, a warm-up failure is swallowed, and in
\* every interleaving the request gets exactly the response its handler
\* gives, whatever became of the warm-up.
C5_WarmupDetached ==
    /\ rpc \in {"inHandler", "responded"} =>
          /\ warm # "notStarted"
          /\ Position("getModelData") >= 1
          /\ Position("getModelData") < Position("next")
    /\ rpc = "inHandler" => ENABLED HandlerCompletes
    /\ warm # "unhandled"
    /\ rpc = "responded" => responses = <<HandlerAloneResponse>>

\* the response was produced while the warm-up was pending, and the warm-up
\* failed afterwards
C5_Witness ==
    /\ rpc = "responded"
    /\ warm = "swallowed"
    /\ events = <<"errorHandler", "corsMiddleware", "getModelData", "waitUntil",
                  "next", "response", "warmupRejected">>
    /\ responses = <<HandlerResponse>>

\* C6: every value reaching the error boundary yields exactly one JSON
\* response: the Anthropic envelope with toAnthropicError's status when the
\* path starts with /v1/messages, the OpenAI envelope with toOpenAIError's
\* status for every other path, whatever the kind of the error.
C6_EnvelopeByRoutePrefix ==
    (rpc = "responded" /\ handler.does = "throws") =>
        /\ Len(responses) = 1
        /\ LET r == responses[1]
               e == handler.error
           IN  IF Len(reqPath) >= 2 /\ reqPath[1] = "/v1" /\ reqPath[2] = "/messages"
               THEN /\ DOMAIN r.body = {"type", "error"}
                    /\ r.body.type = "error"
                    /\ DOMAIN r.body.error = {"type", "message"}
                    /\ r.body.error.type = toAnthropicError(e).type
                    /\ r.body.error.message = toAnthropicError(e).message
                    /\ r.status = toAnthropicError(e).status
               ELSE /\ DOMAIN r.body = {"error"}
                    /\ DOMAIN r.body.error = {"message", "type", "param", "code"}
                    /\ r.body.error.message = toOpenAIError(e).message
                    /\ r.body.error.type = toOpenAIError(e).type
                    /\ r.body.error.param = toOpenAIError(e).param
                    /\ r.body.error.code = toOpenAIError(e).code
                    /\ r.status = toOpenAIError(e).status

\* a thrown string on /v1/messages/count_tokens answered in the Anthropic shape
C6_Witness ==
    /\ rpc = "responded"
    /\ handler.does = "throws"
    /\ handler.error.class = "string"
    /\ reqPath = <<"/v1", "/messages", "/count_tokens">>
    /\ logged = <<"error">>
    /\ DOMAIN responses[1].body = {"type", "error"}

-----------------------------------------------------------------------------
(* Properties of mimeToExtension (SpecMime) *)

\* the documented extension of a MIME type
DocumentedExtension(mimeType) ==
    IF mimeType = "image/jpeg" THEN ".jpg"
    ELSE IF mimeType = "image/webp" THEN ".webp"
    ELSE IF mimeType = "image/gif" THEN ".gif"
    ELSE ".png"

\* C8: mimeToExtension is total over strings: the documented extension for
\* the four supported types and exactly ".png" for every other string.
C8_MimeToExtensionTotal ==
    mpc = "done" => extResult.value = JsString(DocumentedExtension(Join(mimeArg)))

-----------------------------------------------------------------------------
(* Properties of the image pipeline (SpecImage) *)

ImageReturned ==
    /\ ipc \in {"resolved", "uploading", "readingUploadBody", "done", "failed"}
    /\ imageResult.status = "returned"

\* the media type a data URI declares: what follows "data:" up to the first
\* ";" or ","
DeclaredMediaType(url) ==
    LET k == CHOOSE k \in 1..Len(url) :
                /\ \A i \in 2..k : url[i] \notin {";", ","}
                /\ k = Len(url) \/ url[k + 1] \in {";", ","}
    IN  Join([i \in 1..(k - 1) |-> url[i + 1]])

\* the content type a response declares, parameters and surrounding blanks
\* dropped; "" when there is no header
DeclaredContentType(h) ==
    IF ~h.present THEN ""
    ELSE LET v   == h.value
             n   == CHOOSE n \in 0..Len(v) :
                        /\ \A i \in 1..n : v[i] # ";"
                        /\ n = Len(v) \/ v[n + 1] = ";"
             inn == { i \in 1..n : v[i] # " " }
         IN  IF inn = {} THEN ""
             ELSE LET lo == CHOOSE i \in inn : \A j \in inn : i <= j
                      hi == CHOOSE i \in inn : \A j \in inn : i >= j
                  IN  Join([i \in 1..(hi - lo + 1) |-> v[lo + i - 1]])

\* C7: every failure of processImageUrl and uploadImageToAsset is a typed
\* taxonomy failure, which the error boundary reports as an expected error,
\* and each operation issues its network call at most once.
C7_TypedPipelineFailures ==
    /\ PipelineFailure # NoError => PipelineFailure.class \in EXPECTED_ERRORS
    /\ boundaryClass # "error"
    /\ Len(fetches) <= 1
    /\ Len(uploads) <= 1

\* C9: a data:image/ URI's declared media type is returned verbatim, in the
\* supported set or not; for a fetched URL the returned type is always one
\* of the four supported types: the declared content type when that is
\* supported, "image/png" otherwise.
C9_AsymmetricMimeTrust ==
    ImageReturned =>
        IF StartsWith(imageUrl, <<"data:", "image/">>)
        THEN /\ imageResult.value.mimeType = DeclaredMediaType(imageUrl)
             /\ fetches = <<>>
        ELSE /\ Len(fetchResponse) = 1
             /\ imageResult.value.mimeType \in
                   {"image/jpeg", "image/png", "image/webp", "image/gif"}
             /\ LET declared == DeclaredContentType(fetchResponse[1].contentType)
                IN  imageResult.value.mimeType =
                       (IF declared \in {"image/jpeg", "image/png", "image/webp",
                                         "image/gif"}
                        THEN declared ELSE "image/png")

\* a data URI declaring image/svg+xml decoded with that type kept
C9_Witness ==
    /\ ImageReturned
    /\ imageUrl = <<"data:", "image/", "svg+xml", ";", "base64", ",", "QUJD">>
    /\ imageResult.value.mimeType = "image/svg+xml"
    /\ imageResult.value.data = 3

=============================================================================
